---- MODULE Spec2Model ----
(***************************************************************************)
(* Model of research/ratingcurves/rc_depth_shift.py: the RCData / RCDist   *)
(* classes (HAND vs. USGS rating curves) and the top-level driver loop.    *)
(*                                                                         *)
(* Numbers read from text are kept in fixed point, in hundredths (the      *)
(* USGS files carry two decimals), so the literal 1 of the discharge       *)
(* filter is One == 100.  Text fields are atomic strings; float() is the   *)
(* table FloatOf and re.search('[a-zA-Z]') is membership in LetterFields.  *)
(***************************************************************************)
EXTENDS Integers, Sequences, FiniteSets, TLC

VARIABLES pc, inp, self, out, i, log, net

vars == <<pc, inp, self, out, i, log, net>>

\* ---------------------------------------------------------------- bounds
MaxLines == 3
MaxSites == 2

\* ------------------------------------------------------ generic helpers
SeqsUpTo(S, n) == UNION {[1..k -> S] : k \in 0..n}

Range(s) == {s[k] : k \in 1..Len(s)}

NoExc == "none"

\* ------------------------------------------------------- text and floats
\* float(): the numeric strings of the model and their values (hundredths)
FloatOf ==
  ("0.00" :> 0) @@ ("0.99" :> 99) @@ ("1.00" :> 100) @@ ("2.00" :> 200) @@
  ("10.00" :> 1000) @@ ("12.00" :> 1200) @@ ("15.00" :> 1500) @@
  ("1" :> 100) @@ ("2" :> 200) @@ ("4" :> 400) @@ ("5" :> 500)

\* the literal 1 of "float(...) >= 1" in fixed point
One == 100

\* fields in which re.search('[a-zA-Z]', .) finds a letter
LetterFields == {"# RATING", "INDEP", "SHIFT", "DEP",
                 "chan_width", "gage_height_va", "current_rating_nu", "5s"}

HasLetters(line) == \E k \in 1..Len(line) : line[k] \in LetterFields

\* ------------------------------------------------- RCData.get_usgsrc
\* one rating line after split('\t'): columns stage, shift, discharge
StageTxt == {"10.00", "12.00", "15.00"}
ShiftTxt == {"0.00", "2.00"}
DepTxt == {"0.99", "1.00"}

RcDataLines == {<<s, c, q>> : s \in StageTxt, c \in ShiftTxt, q \in DepTxt}
RcHeaderLine == <<"INDEP", "SHIFT", "DEP">>
RcBlankLine == <<"">>
RcLines == RcDataLines \cup {RcHeaderLine, RcBlankLine}
RcFiles == SeqsUpTo(RcLines, MaxLines)

\* a filter that lets every discharge through
KeepRowLow(q) == q >= 0

\* the test of line 97: the row is kept when its discharge column is >= 1
KeepRow(q) == q >= One

\* a height that leaves the shift out
ShiftedStageNoShift(stage, shift) == stage

\* the height appended at line 101: stage minus shift
ShiftedStage(stage, shift) == stage - shift

\* lines 93-101: the scan of one site's lines from line j on;
\* st = [findData, usgsq, usgsh, exc]
RECURSIVE ScanLines(_, _, _)
ScanLines(urllines, j, st) ==
  IF j > Len(urllines) THEN st
  ELSE
    LET line == urllines[j]
        findData == st.findData \/ ~HasLetters(line)
        st1 == [st EXCEPT !.findData = findData]
    IN  IF ~findData THEN ScanLines(urllines, j + 1, st1)
        ELSE IF Len(line) < 3 THEN [st1 EXCEPT !.exc = "IndexError"]
        ELSE IF line[3] \notin DOMAIN FloatOf
             THEN [st1 EXCEPT !.exc = "ValueError"]
        ELSE IF ~KeepRow(FloatOf[line[3]])
             THEN ScanLines(urllines, j + 1, st1)
        ELSE IF line[1] \notin DOMAIN FloatOf \/ line[2] \notin DOMAIN FloatOf
             THEN [st1 EXCEPT !.exc = "ValueError"]
        ELSE ScanLines(urllines, j + 1,
               [st1 EXCEPT
                  !.usgsq = Append(@, FloatOf[line[3]]),
                  !.usgsh = Append(@, ShiftedStage(FloatOf[line[1]],
                                                   FloatOf[line[2]]))])

\* line 103: usgsh - shift
Rebase(usgsh, shift) == [k \in 1..Len(usgsh) |-> usgsh[k] - shift]

\* lines 88-104: one iteration of the site loop on the fetched lines
SiteSeries(urllines) ==
  LET st == ScanLines(urllines, 1,
              [findData |-> FALSE, usgsq |-> <<>>, usgsh |-> <<>>,
               exc |-> NoExc])
  IN  IF st.exc # NoExc THEN [exc |-> st.exc, usgsh |-> <<>>, usgsq |-> <<>>]
      ELSE IF Len(st.usgsh) = 0
           THEN [exc |-> "IndexError", usgsh |-> <<>>, usgsq |-> <<>>]
      ELSE [exc |-> NoExc,
            usgsh |-> Rebase(st.usgsh, st.usgsh[1]),
            usgsq |-> st.usgsq]

\* lines 85-106: the site loop over the responses, one per site id
RECURSIVE GetUsgsrcFrom(_, _, _)
GetUsgsrcFrom(files, k, acc) ==
  IF k > Len(files) THEN acc
  ELSE LET r == SiteSeries(files[k])
       IN  IF r.exc # NoExc THEN [acc EXCEPT !.exc = r.exc]
           ELSE GetUsgsrcFrom(files, k + 1,
                  [acc EXCEPT !.usgsh = Append(@, r.usgsh),
                              !.usgsq = Append(@, r.usgsq)])

GetUsgsrc(files) ==
  GetUsgsrcFrom(files, 1, [exc |-> NoExc, usgsh |-> <<>>, usgsq |-> <<>>])

\* responses of the sites after the first one (kept few)
RcOtherFiles == {<<RcHeaderLine, <<"12.00", "0.00", "1.00">> >>, <<RcHeaderLine>>}

RcResponses ==
  {<<>>} \cup
  {<<f>> \o rest : f \in RcFiles, rest \in SeqsUpTo(RcOtherFiles, MaxSites - 1)}

\* the value of a variable a specification does not use
Idle == "-"

\* ------------------------------------------ specification: get_usgsrc
\* get_usgsrc called on an object whose site ids are answered by inp.files
InitRc ==
  /\ pc = "get_usgsrc"
  /\ inp \in {[files |-> fs] : fs \in RcResponses}
  /\ self = [usgsh |-> <<>>, usgsq |-> <<>>]
  /\ out = NoExc
  /\ i = 0 /\ log = <<>> /\ net = <<>>

CallGetUsgsrc ==
  /\ pc = "get_usgsrc"
  /\ LET r == GetUsgsrc(inp.files)
     IN  /\ self' = [usgsh |-> r.usgsh, usgsq |-> r.usgsq]
         /\ out' = r.exc
         /\ pc' = IF r.exc = NoExc THEN "returned" ELSE "raised"
  /\ UNCHANGED <<inp, i, log, net>>

NextRc == CallGetUsgsrc

SpecRc == InitRc /\ [][NextRc]_vars

\* the data rows of a response: everything from the first letterless line on
DataStart(file) ==
  IF \E j \in 1..Len(file) : ~HasLetters(file[j])
  THEN CHOOSE j \in 1..Len(file) :
         ~HasLetters(file[j]) /\ \A m \in 1..(j - 1) : HasLetters(file[m])
  ELSE Len(file) + 1

DataRows(file) == SubSeq(file, DataStart(file), Len(file))

IsRetained(line) == FloatOf[line[3]] >= 100

RetainedRows(file) == SelectSeq(DataRows(file), IsRetained)

\* C1: after get_usgsrc returns, every site's usgsq and usgsh have equal
\* length, every stored discharge is >= 1, and the stored discharges are
\* exactly the discharge columns of the data rows with discharge >= 1, in
\* order: no row with discharge < 1 contributes an entry.
C1_DischargeFilter ==
  pc = "returned" =>
    /\ Len(self.usgsq) = Len(inp.files)
    /\ Len(self.usgsh) = Len(inp.files)
    /\ \A s \in 1..Len(inp.files) :
         LET kept == RetainedRows(inp.files[s])
         IN  /\ Len(self.usgsq[s]) = Len(self.usgsh[s])
             /\ \A k \in 1..Len(self.usgsq[s]) : self.usgsq[s][k] >= 100
             /\ self.usgsq[s] = [k \in 1..Len(kept) |-> FloatOf[kept[k][3]]]

C1_Witness ==
  /\ pc = "returned"
  /\ Len(inp.files) = 2
  /\ \E k \in 1..Len(inp.files[1]) :
       /\ Len(inp.files[1][k]) = 3
       /\ inp.files[1][k][3] = "0.99"
  /\ Len(self.usgsq[1]) = 2

\* C2: for a site with at least one retained row, the k-th returned height
\* is (stage_k - correction_k) - (stage_0 - correction_0) over the retained
\* rows, so the first one is 0.
C2_Rebased ==
  pc = "returned" =>
    \A s \in 1..Len(inp.files) :
      LET kept == RetainedRows(inp.files[s])
          h(k) == FloatOf[kept[k][1]] - FloatOf[kept[k][2]]
      IN  /\ Len(self.usgsh[s]) = Len(kept)
          /\ Len(kept) >= 1
          /\ self.usgsh[s][1] = 0
          /\ \A k \in 1..Len(kept) : self.usgsh[s][k] = h(k) - h(1)

\* shift-corrected heights [10, 12, 15] come back as [0, 2, 5]
C2_Witness ==
  /\ pc = "returned"
  /\ Len(inp.files) >= 1
  /\ inp.files[1] = << <<"12.00", "2.00", "1.00">>,
                       <<"12.00", "0.00", "1.00">>,
                       <<"15.00", "0.00", "1.00">> >>
  /\ self.usgsh[1] = <<0, 200, 500>>

\* ------------------------------------------------ RCData.get_hand_props
\* 3.28084 ft per m, times 10^5
FtPerM == 328084

\* scipy.rint of num/den (num >= 0): round half to even
Rint(num, den) ==
  LET q == num \div den
      r == num % den
  IN  IF 2 * r < den THEN q
      ELSE IF 2 * r > den THEN q + 1
      ELSE IF q % 2 = 0 THEN q ELSE q + 1

\* lines 71-72: a stage height of the file (in mm) in whole feet, fixed point
StageFt(mm) == One * Rint(mm * FtPerM, 100000000)

\* raw * 3.28084^pow, kept exact as the pair (raw, pow)
Converted(raw, pow) == [raw |-> raw, pow |-> pow]

\* the attributes an object has are named in obj.attrs; an attribute that
\* is not set holds a placeholder of its type
HasAttr(obj, name) == name \in obj.attrs

PropsAttrs == {"handarea", "handrad", "handslope", "handlen", "handwidth"}

\* lines 58-72: nc is the array file, a record of its variables
GetHandProps(obj, nc) ==
  LET idx == obj.hand_props_idx + 1
      fresh == nc.COMID[idx] = obj.comid
      row(v, pow) == [k \in 1..Len(v[idx]) |-> Converted(v[idx][k], pow)]
  IN  [obj EXCEPT
         !.handarea = IF fresh THEN row(nc.WetArea, 2) ELSE @,
         !.handrad = IF fresh THEN row(nc.HydraulicRadius, 1) ELSE @,
         !.handslope = IF fresh THEN nc.Slope[idx] ELSE @,
         !.handlen = IF fresh THEN Converted(nc.Length[idx], 1) ELSE @,
         !.handwidth = IF fresh THEN row(nc.Width, 1) ELSE @,
         !.handstage = [k \in 1..Len(nc.StageHeight) |->
                          StageFt(nc.StageHeight[k])],
         !.attrs = @ \cup {"handstage"} \cup
                   (IF fresh THEN PropsAttrs ELSE {})]

\* an object when the constructor starts (line 32)
NewObject(comid) ==
  [comid |-> comid, attrs |-> {"comid"},
   hand_curves_idx |-> 0, handq |-> <<>>, handh |-> <<>>,
   hand_props_idx |-> 0, handarea |-> <<>>, handrad |-> <<>>,
   handslope |-> 0, handlen |-> Converted(0, 1), handwidth |-> <<>>,
   handstage |-> <<>>,
   usgsids |-> <<>>, usgsh |-> <<>>, usgsq |-> <<>>]

\* ---------------------------------------------------- RCDist.mannings_n
\* line 133: 1.49*area*hydrad^(2/3)*sqrt(slope)/disch, element-wise; the
\* value is kept as the term of its operands
ManningsTerm(area, hydrad, slope, disch) ==
  [area |-> area, hydrad |-> hydrad, slope |-> slope, disch |-> disch]

mannings_n(area, hydrad, slope, disch) ==
  [k \in 1..Len(disch) |-> ManningsTerm(area[k], hydrad[k], slope, disch[k])]

\* ---------------------------------------------------- RCDist.optimize_n
Abs(x) == IF x < 0 THEN -x ELSE x

\* line 143: min(enumerate(usgsh0), key=|x - h|): the first index of the least
Nearest(usgsh0, h) ==
  CHOOSE j \in 1..Len(usgsh0) :
    /\ \A m \in 1..Len(usgsh0) : Abs(usgsh0[j] - h) <= Abs(usgsh0[m] - h)
    /\ \A m \in 1..(j - 1) : Abs(usgsh0[m] - h) > Abs(usgsh0[j] - h)

\* lines 142-147: the loop over handstage from step s on;
\* acc = [hlist, qlist] (usgs_hset is the set of the elements of hlist)
RECURSIVE MatchStages(_, _, _, _)
MatchStages(handstage, usgsh0, usgsq0, acc) ==
  IF handstage = <<>> THEN acc
  ELSE LET res == Nearest(usgsh0, Head(handstage))
           seen == usgsh0[res] \in Range(acc.hlist)
       IN  MatchStages(Tail(handstage), usgsh0, usgsq0,
             IF seen THEN acc
             ELSE [hlist |-> Append(acc.hlist, usgsh0[res]),
                   qlist |-> Append(acc.qlist, usgsq0[res])])

\* a trim that drops nothing
KeepAll(list) == list

\* lines 148-149: list[:-1]
DropLast(list) == SubSeq(list, 1, Len(list) - 1)

\* lines 150-151: array[:n]
Prefix(array, n) == SubSeq(array, 1, IF n < Len(array) THEN n ELSE Len(array))

\* lines 139-153: the list of (usgs_h, usgs_q, n), or the exception raised
OptimizeN(obj) ==
  IF obj.handstage = <<>>
  THEN IF ~HasAttr(obj, "handarea")
       THEN [exc |-> "AttributeError", zip |-> <<>>]
       ELSE [exc |-> NoExc, zip |-> <<>>]
  ELSE IF obj.usgsh = <<>> THEN [exc |-> "IndexError", zip |-> <<>>]
  ELSE
    LET m == MatchStages(obj.handstage, obj.usgsh[1], obj.usgsq[1],
                         [hlist |-> <<>>, qlist |-> <<>>])
        usgs_hlist == DropLast(m.hlist)
        usgs_qlist == DropLast(m.qlist)
    IN  IF ~HasAttr(obj, "handarea")
        THEN [exc |-> "AttributeError", zip |-> <<>>]
        ELSE
          LET area == Prefix(obj.handarea, Len(usgs_qlist))
              hydrad == Prefix(obj.handrad, Len(usgs_qlist))
              opt_n == mannings_n(area, hydrad, obj.handslope, usgs_qlist)
          IN  [exc |-> NoExc,
               zip |-> [k \in 1..Len(usgs_hlist) |->
                          <<usgs_hlist[k], usgs_qlist[k], opt_n[k]>>]]

\* --------------------------------------------------------- the driver's ids
\* line 359
comids == <<5781373, 5781407>>

\* a reach id of the array files that is none of the driver's
OtherComid == 5781369

\* ------------------------------------------------ array file of line 42
MaxStages == 4
MaxObs == 3

\* a file of the rows `ids`, all rows alike, over the stage axis `stage` (mm)
PropsFile(ids, stage, area) ==
  LET n == Len(stage)
      rows(v) == [r \in 1..Len(ids) |-> v]
  IN  [COMID |-> ids,
       StageHeight |-> stage,
       WetArea |-> rows([k \in 1..n |-> area[k]]),
       HydraulicRadius |-> rows([k \in 1..n |-> k - 1]),
       Slope |-> rows(1),
       Length |-> rows(1000),
       Width |-> rows([k \in 1..n |-> 4 * (k - 1)])]

StageMm == {150, 305, 610}

StageAxes == UNION {[1..n -> StageMm] : n \in 1..MaxStages}

\* wet area growing with the stage step, and the same at every step
AreaRows(n) == {[k \in 1..n |-> 10 * (k - 1)], [k \in 1..n |-> 5]}

OptPropsFiles ==
  {PropsFile(<<comids[1]>>, stage, area) :
     stage \in StageAxes, area \in AreaRows(MaxStages)}
  \cup {PropsFile(<<OtherComid>>, <<150, 305>>, <<0, 10>>)}

\* what get_usgsrc leaves for the first site: first height 0, discharges >= 1
\* (growing with the sample, or the same at every sample)
ObsHeights == {0, 100, 200}

DischargeRows(n) == {[k \in 1..n |-> 100 * k], [k \in 1..n |-> 250]}

ObsSeries ==
  UNION {{[h |-> <<0>> \o hs, q |-> qs] :
            hs \in [1..(n - 1) -> ObsHeights], qs \in DischargeRows(n)} :
         n \in 1..MaxObs}

OptObjects ==
  LET base == [NewObject(comids[1]) EXCEPT
                 !.hand_props_idx = 0,
                 !.attrs = @ \cup {"hand_props_idx", "usgsh", "usgsq"}]
  IN  {[GetHandProps(base, nc) EXCEPT !.usgsh = <<ser.h>>, !.usgsq = <<ser.q>>] :
         nc \in OptPropsFiles, ser \in ObsSeries}
      \cup
      {[GetHandProps(base, nc) EXCEPT !.usgsh = <<>>, !.usgsq = <<>>] :
         nc \in {PropsFile(<<comids[1]>>, <<305>>, <<0>>)}}

\* ------------------------------------------ specification: optimize_n
InitOpt ==
  /\ pc = "optimize_n"
  /\ self \in OptObjects
  /\ inp = Idle
  /\ out = [exc |-> NoExc, zip |-> <<>>]
  /\ i = 0 /\ log = <<>> /\ net = <<>>

CallOptimizeN ==
  /\ pc = "optimize_n"
  /\ out' = OptimizeN(self)
  /\ pc' = IF out'.exc = NoExc THEN "returned" ELSE "raised"
  /\ UNCHANGED <<inp, self, i, log, net>>

NextOpt == CallOptimizeN

SpecOpt == InitOpt /\ [][NextOpt]_vars

\* the sample matched by a stage step: the least index among the samples at
\* the least absolute difference
MatchOf(hs, x) ==
  LET d(j) == IF hs[j] - x < 0 THEN x - hs[j] ELSE hs[j] - x
      best == {j \in 1..Len(hs) : \A m \in 1..Len(hs) : d(j) <= d(m)}
  IN  CHOOSE j \in best : \A m \in best : j <= m

MatchedHeight(obj, s) == obj.usgsh[1][MatchOf(obj.usgsh[1], obj.handstage[s])]

MatchedHeights(obj) == {MatchedHeight(obj, s) : s \in 1..Len(obj.handstage)}

\* the first stage step that matched the observed height v
FirstStep(obj, v) ==
  CHOOSE s \in 1..Len(obj.handstage) :
    /\ MatchedHeight(obj, s) = v
    /\ \A t \in 1..(s - 1) : MatchedHeight(obj, t) # v

C8_RoughnessOfMatchedStep ==
  pc = "returned" =>
    \A k \in 1..Len(out.zip) :
      LET s == FirstStep(self, out.zip[k][1])
      IN  out.zip[k][3] = [area |-> self.handarea[s],
                           hydrad |-> self.handrad[s],
                           slope |-> self.handslope,
                           disch |-> out.zip[k][2]]

\* ----------------------------------------------- RCDist.get_usgs_geometry
MaxRows == 3

\* a first field that starts with '#'
CommentFields == {"# RATING"}

IsComment(line) == line[1] \in CommentFields

Min(a, b) == IF a < b THEN a ELSE b

\* the least row length: zip(*values) stops at the shortest row
RECURSIVE ShortestRow(_)
ShortestRow(values) ==
  IF Len(values) = 1 THEN Len(values[1])
  ELSE Min(Len(values[1]), ShortestRow(Tail(values)))

\* lines 161-171: the dictionary column name -> column, or the exception
GetUsgsGeometry(urllines) ==
  LET kept == SelectSeq(urllines, LAMBDA line : ~IsComment(line))
  IN  IF Len(kept) < 2 THEN [exc |-> "IndexError", d |-> <<>>]
      ELSE
        LET keys == kept[1]
            values == SubSeq(kept, 3, Len(kept))
            n == IF values = <<>> THEN 0
                 ELSE Min(Len(keys), ShortestRow(values))
            last(name) == CHOOSE c \in 1..n :
                            /\ keys[c] = name
                            /\ \A c2 \in (c + 1)..n : keys[c2] # name
        IN  [exc |-> NoExc,
             d |-> [name \in {keys[c] : c \in 1..n} |->
                      [r \in 1..Len(values) |-> values[r][last(name)]]]]

\* ---------------------------------------------------- RCDist.draw_xsect
\* filter(None, r) on a string: true when the string is not empty
NonEmpty(field) == field # ""

\* line 210: the pairs (ind, float(r)) of the non-empty ratings, ind from 0
RatingPairs(col) ==
  LET idxs == SelectSeq([k \in 1..Len(col) |-> k],
                        LAMBDA k : NonEmpty(col[k]))
  IN  [m \in 1..Len(idxs) |-> <<idxs[m] - 1, FloatOf[col[idxs[m]]]>>]

\* tuple.index(x): the position (from 0) of the first element equal to x
IndexOf(rnos, x) ==
  (CHOOSE m \in 1..Len(rnos) :
     rnos[m] = x /\ \A m2 \in 1..(m - 1) : rnos[m2] # x) - 1

\* lines 215-216
MostRecent(ratings) ==
  LET rnos == [m \in 1..Len(ratings) |-> ratings[m][2]]
  IN  ratings[IndexOf(rnos, rnos[Len(rnos)]) + 1][1]

\* a test that takes the rows of every rating
KeepSampleAnyRating(w, h, r, latest) == NonEmpty(w) /\ NonEmpty(h) /\ NonEmpty(r)

\* line 224: the test of one row against the last rating
KeepSample(w, h, r, latest) ==
  NonEmpty(w) /\ NonEmpty(h) /\ NonEmpty(r) /\ FloatOf[r] = latest

\* line 222: float(w)/2.0 (the widths of the model are even in fixed point)
HalfWidth(w) == w \div 2

\* lines 222-224: the list of (half width, height)
Samples(d, latest) ==
  LET W == d["chan_width"]
      H == d["gage_height_va"]
      R == d["current_rating_nu"]
      idxs == SelectSeq([k \in 1..Len(R) |-> k],
                        LAMBDA k : KeepSample(W[k], H[k], R[k], latest))
  IN  [m \in 1..Len(idxs) |->
         <<HalfWidth(FloatOf[W[idxs[m]]]), FloatOf[H[idxs[m]]]>>]

\* operator.itemgetter(1, 0): the order on (height, width)
KeyLess(p, q) == p[2] < q[2] \/ (p[2] = q[2] /\ p[1] < q[1])

\* sorted(data, key=itemgetter(1, 0)): stable insertion of each element
RECURSIVE Insert(_, _)
Insert(sorted, p) ==
  IF sorted = <<>> THEN <<p>>
  ELSE IF KeyLess(p, Head(sorted)) THEN <<p>> \o sorted
  ELSE <<Head(sorted)>> \o Insert(Tail(sorted), p)

RECURSIVE Sorted(_)
Sorted(data) ==
  IF data = <<>> THEN <<>>
  ELSE Insert(Sorted(SubSeq(data, 1, Len(data) - 1)), data[Len(data)])

Reversed(seq) == [k \in 1..Len(seq) |-> seq[Len(seq) + 1 - k]]

\* line 234: neg[:,0] = -neg[:,0]
NegateWidths(seq) == [k \in 1..Len(seq) |-> <<-seq[k][1], seq[k][2]>>]

\* line 237: [neg, origin, pos]
Path(neg, pos) == neg \o <<<<0, 0>>>> \o pos

NoXsect == [most_recent |-> 0, latest |-> 0, data |-> <<>>, usgs_xsect |-> <<>>]

\* lines 204-237: one iteration of the site loop on the fetched lines
SiteXsect(urllines) ==
  LET g == GetUsgsGeometry(urllines)
      fail(kind) == [exc |-> kind, d |-> g.d, x |-> NoXsect]
  IN  IF g.exc # NoExc THEN fail(g.exc)
      ELSE IF "current_rating_nu" \notin DOMAIN g.d THEN fail("KeyError")
      ELSE IF \E k \in 1..Len(g.d["current_rating_nu"]) :
                /\ NonEmpty(g.d["current_rating_nu"][k])
                /\ g.d["current_rating_nu"][k] \notin DOMAIN FloatOf
           THEN fail("ValueError")
      ELSE
        LET ratings == RatingPairs(g.d["current_rating_nu"])
        IN  IF ratings = <<>> THEN fail("IndexError")
            ELSE IF "chan_width" \notin DOMAIN g.d
                    \/ "gage_height_va" \notin DOMAIN g.d
                 THEN fail("KeyError")
            ELSE
              LET latest == ratings[Len(ratings)][2]
                  data == Samples(g.d, latest)
                  pos == Sorted(data)
                  neg == Reversed(Sorted(data))
              IN  IF data = <<>>
                  THEN [exc |-> "IndexError", d |-> g.d,
                        x |-> [NoXsect EXCEPT
                                 !.most_recent = MostRecent(ratings),
                                 !.latest = latest]]
                  ELSE [exc |-> NoExc, d |-> g.d,
                        x |-> [most_recent |-> MostRecent(ratings),
                               latest |-> latest,
                               data |-> data,
                               usgs_xsect |-> Path(NegateWidths(neg), pos)]]

\* the measurement responses
XsHeader == <<"chan_width", "gage_height_va", "current_rating_nu">>
XsJunk == <<"5s", "5s", "5s">>
XsComment == <<"# RATING">>

WidthTxt == {"", "4", "5"}
HeightTxt == {"", "1", "2"}
RatingTxt == {"", "1", "2"}

XsRows == {<<w, h, r>> : w \in WidthTxt, h \in HeightTxt, r \in RatingTxt}

XsResponses ==
  {<<XsComment, XsHeader, XsJunk>> \o rows : rows \in SeqsUpTo(XsRows, MaxRows)}
  \cup {<<>>, <<XsComment>>, <<XsComment, XsHeader>>,
        <<<<"gage_height_va", "current_rating_nu">>, XsJunk, <<"1", "1">> >>,
        <<XsHeader, XsJunk, <<"4", "1", "5s">> >>}

\* ------------------------------- specification: one site of draw_xsect
InitXs ==
  /\ pc = "draw_xsect"
  /\ inp \in {[lines |-> r] : r \in XsResponses}
  /\ out = [exc |-> NoExc, d |-> <<>>, x |-> NoXsect]
  /\ self = Idle
  /\ i = 0 /\ log = <<>> /\ net = <<>>

CallSiteXsect ==
  /\ pc = "draw_xsect"
  /\ out' = SiteXsect(inp.lines)
  /\ pc' = IF out'.exc = NoExc THEN "returned" ELSE "raised"
  /\ UNCHANGED <<inp, self, i, log, net>>

NextXs == CallSiteXsect

SpecXs == InitXs /\ [][NextXs]_vars

\* the rows below the header and the discarded row of a well-formed response
TableRows(lines) ==
  LET kept == SelectSeq(lines, LAMBDA line : line[1] # "# RATING")
  IN  SubSeq(kept, 3, Len(kept))

\* the rows with a rating (positions from 1)
RatedRows(rows) == {k \in 1..Len(rows) : rows[k][3] # ""}

LastRated(rows) == CHOOSE k \in RatedRows(rows) : \A m \in RatedRows(rows) : m <= k

\* the rows the cross-section is built from
KeptRows(rows) ==
  {k \in RatedRows(rows) :
     /\ FloatOf[rows[k][3]] = FloatOf[rows[LastRated(rows)][3]]
     /\ rows[k][1] # "" /\ rows[k][2] # ""}

HalfSample(row) == <<FloatOf[row[1]] \div 2, FloatOf[row[2]]>>

Count(seq, p) == Cardinality({k \in 1..Len(seq) : seq[k] = p})

\* C10: the observed cross-section is built from exactly the rows whose
\* rating is non-empty and equal to the last non-empty rating and whose width
\* and height are non-empty, each width halved; the path is the kept rows
\* descending by (height, width) with the width negated, the origin, and the
\* kept rows ascending by (height, width): 2k+1 points for k kept rows,
\* mirror-symmetric about width 0.
C10_CrossSectionPath ==
  pc = "returned" =>
    LET rows == TableRows(inp.lines)
        K == KeptRows(rows)
        k == Cardinality(K)
        path == out.x.usgs_xsect
    IN  /\ Len(path) = 2 * k + 1
        /\ path[k + 1] = <<0, 0>>
        /\ \A r \in K :
             Count(SubSeq(path, k + 2, 2 * k + 1), HalfSample(rows[r]))
               = Cardinality({r2 \in K : HalfSample(rows[r2]) = HalfSample(rows[r])})
        /\ \A a \in (k + 2)..(2 * k + 1) :
             \E r \in K : path[a] = HalfSample(rows[r])
        /\ \A a, b \in (k + 2)..(2 * k + 1) :
             a < b => \/ path[a][2] < path[b][2]
                      \/ (path[a][2] = path[b][2] /\ path[a][1] <= path[b][1])
        /\ \A a \in 1..k :
             path[a] = <<-path[2 * k + 2 - a][1], path[2 * k + 2 - a][2]>>

\* rows of both ratings, a row without a width, two kept rows out of order
C10_Witness ==
  /\ pc = "returned"
  /\ TableRows(inp.lines) = << <<"5", "2", "1">>, <<"", "1", "1">>, <<"4", "1", "1">> >>
  /\ out.x.usgs_xsect = << <<-250, 200>>, <<-200, 100>>, <<0, 0>>,
                           <<200, 100>>, <<250, 200>> >>

\* C3: the most recent rating is the last non-empty identifier of the series
\* and it is matched at the index of its last occurrence.
C3_LatestRatingLastOccurrence ==
  pc = "returned" =>
    LET rows == TableRows(inp.lines)
    IN  /\ out.x.latest = FloatOf[rows[LastRated(rows)][3]]
        /\ out.x.most_recent = LastRated(rows) - 1

\* ============================================================ the driver
MaxIdxRows == 1
MaxXwRows == 2

\* the stage step of the axis limits of lines 250-251
PlotStep == 11

ComidSet == Range(comids)

\* line 349: '{0:0>8}'.format(x) on the site numbers of the csv
Pad8 == (8158700 :> "08158700") @@ (8159000 :> "08159000")

\* ---------------------------------------------------- index tables (csv)
\* rows (comid, index); index is a row of the array file, from 0
IdxTables == SeqsUpTo([comid : ComidSet, index : {0, 1}], MaxIdxRows)

\* lines 38-39 and 44-45: .loc[comid == self.comid]['index'].values, whose
\* element 0 is taken
IdxValues(tbl, comid) ==
  LET idxs == SelectSeq([k \in 1..Len(tbl) |-> k],
                        LAMBDA k : tbl[k].comid = comid)
  IN  [m \in 1..Len(idxs) |-> tbl[idxs[m]].index]

\* ----------------------------------------------- RCData.get_hand_curves
CurvesFiles ==
  {[COMID |-> ids,
    Q_cfs |-> [r \in 1..2 |-> <<0, 10 * r, 30 * r>>],
    H_ft |-> <<0, 1, 2>>] : ids \in [1..2 -> ComidSet]}

\* lines 76-81
GetHandCurves(obj, nc) ==
  LET idx == obj.hand_curves_idx + 1
      fresh == nc.COMID[idx] = obj.comid
  IN  [obj EXCEPT
         !.handq = IF fresh THEN nc.Q_cfs[idx] ELSE @,
         !.handh = nc.H_ft,
         !.attrs = @ \cup {"handh"} \cup (IF fresh THEN {"handq"} ELSE {})]

\* the array files of line 42: two rows, a short or a long stage axis
DrvStageAxes == {<<0, 305>>, [k \in 1..(PlotStep + 1) |-> 305 * (k - 1)]}

DrvPropsFiles ==
  {PropsFile(ids, stage, [k \in 1..Len(stage) |-> 10 * (k - 1)]) :
     ids \in [1..2 -> ComidSet], stage \in DrvStageAxes}

\* ------------------------------------------------------ crosswalk (csv)
StreamGages ==
  SeqsUpTo([FLComID : ComidSet, SOURCE_FEA : DOMAIN Pad8], MaxXwRows)

\* lines 348-349
IdLookup(csv) ==
  [k \in 1..Len(csv) |-> [csv[k] EXCEPT !.SOURCE_FEA = Pad8[@]]]

\* line 50
UsgsIds(idlookup, comid) ==
  LET idxs == SelectSeq([k \in 1..Len(idlookup) |-> k],
                        LAMBDA k : idlookup[k].FLComID = comid)
  IN  [m \in 1..Len(idxs) |-> idlookup[idxs[m]].SOURCE_FEA]

\* ------------------------------------------------- the remote endpoints
DrvRcFiles ==
  {<<RcHeaderLine, <<"12.00", "2.00", "1.00">> >>,
   <<RcHeaderLine, <<"12.00", "2.00", "0.99">> >>,
   << <<"12.00", "2.00", "1.00">>, RcHeaderLine>>}

DrvXsResponses ==
  {<<XsComment, XsHeader, XsJunk, <<"4", "1", "1">> >>,
   <<XsComment, XsHeader, XsJunk, <<"4", "1", "">> >>,
   <<XsComment, XsHeader, XsJunk>>,
   <<XsComment>>}

\* ---------------------------------------------------- lines 363-384
\* except clauses that catch every kind
HandlerCatchAll(kind) ==
  IF kind = "TypeError" THEN "XS Error" ELSE "RC Error"

\* except clauses without the one for IndexError
HandlerNoIndexError(kind) ==
  IF kind = "TypeError" THEN "XS Error" ELSE "Traceback"

\* lines 379-384: what the except clauses make of an exception of a kind
\* ("Traceback": none of them takes it and the run ends)
Handler(kind) ==
  IF kind = "TypeError" THEN "XS Error"
  ELSE IF kind = "IndexError" THEN "RC Error"
  ELSE "Traceback"

Entry(comid, msg, exc) == [comid |-> comid, msg |-> msg, exc |-> exc]

NoObject == NewObject(0)

NoDrawing == [site |-> 0, xsects |-> <<>>]

\* an exception of a kind leaves the body of the loop; `entries` were
\* printed before it
Raise(kind, entries) ==
  /\ log' = log \o entries \o <<Entry(comids[i], Handler(kind), kind)>>
  /\ IF Handler(kind) = "Traceback"
     THEN /\ pc' = "crashed"
          /\ i' = i
     ELSE /\ pc' = "loop"
          /\ i' = i + 1
  /\ self' = NoObject
  /\ out' = NoDrawing

\* lines 245-273 of draw_xsect: the exception raised, if any
FinishPlot(obj, polys) ==
  IF ~HasAttr(obj, "handwidth") THEN "AttributeError"
  ELSE IF Len(obj.handwidth) = 0 \/ Len(obj.handstage) = 0 THEN "IndexError"
  ELSE IF Len(obj.handwidth) <= PlotStep \/ Len(obj.handstage) <= PlotStep
       THEN "IndexError"
  ELSE IF polys = 0 THEN "UnboundLocalError"
  ELSE NoExc

\* line 370 returned: the figure was saved, on to the next id (line 378)
Saved ==
  /\ log' = Append(log, Entry(comids[i], "savefig", NoExc))
  /\ pc' = "loop"
  /\ i' = i + 1
  /\ self' = NoObject
  /\ out' = NoDrawing

Fetch(url, site, ok) == [comid |-> comids[i], url |-> url, site |-> site, ok |-> ok]

Collected == Entry(comids[i], "Collected", NoExc)

\* lines 365, 32-40
LoadCurves ==
  /\ pc = "loop"
  /\ i <= Len(comids)
  /\ \E tbl \in IdxTables, nc \in CurvesFiles :
       LET vals == IdxValues(tbl, comids[i])
           retrieving == <<Entry(comids[i], "Retrieving", NoExc)>>
       IN  IF vals = <<>> THEN Raise("IndexError", retrieving)
           ELSE /\ self' = GetHandCurves(
                             [NewObject(comids[i]) EXCEPT
                                !.hand_curves_idx = vals[1],
                                !.attrs = @ \cup {"hand_curves",
                                                  "hand_curves_idx"}], nc)
                /\ log' = log \o retrieving
                /\ pc' = "props"
                /\ UNCHANGED <<i, out>>
  /\ UNCHANGED <<inp, net>>

\* lines 42-52, 85-86 (and 105-106, 367 when there is no site to fetch)
LoadProps ==
  /\ pc = "props"
  /\ \E tbl \in IdxTables, nc \in DrvPropsFiles :
       LET vals == IdxValues(tbl, self.comid)
       IN  IF vals = <<>> THEN Raise("IndexError", <<>>)
           ELSE
             LET o1 == GetHandProps(
                         [self EXCEPT
                            !.hand_props_idx = vals[1],
                            !.attrs = @ \cup {"hand_props",
                                              "hand_props_idx"}], nc)
                 ids == UsgsIds(inp.idlookup, self.comid)
             IN  /\ self' = [o1 EXCEPT
                               !.usgsids = ids,
                               !.attrs = @ \cup {"idlookup", "usgsids",
                                                 "usgsrc", "usgsh", "usgsq"}]
                 /\ IF ids = <<>>
                    THEN /\ pc' = "collected"
                         /\ log' = Append(log, Collected)
                    ELSE /\ pc' = "usgsrc"
                         /\ UNCHANGED log
                 /\ UNCHANGED <<i, out>>
  /\ UNCHANGED <<inp, net>>

\* lines 87-104 for the next site (and 105-106, 367 after the last one)
FetchRating ==
  /\ pc = "usgsrc"
  /\ LET k == Len(self.usgsh) + 1
         site == self.usgsids[k]
     IN  \/ /\ net' = Append(net, Fetch("get_ratings", site, FALSE))
            /\ Raise("IOError", <<>>)
         \/ \E urllines \in DrvRcFiles :
              LET r == SiteSeries(urllines)
              IN  /\ net' = Append(net, Fetch("get_ratings", site, TRUE))
                  /\ IF r.exc # NoExc THEN Raise(r.exc, <<>>)
                     ELSE /\ self' = [self EXCEPT
                                        !.usgsh = Append(@, r.usgsh),
                                        !.usgsq = Append(@, r.usgsq)]
                          /\ IF k = Len(self.usgsids)
                             THEN /\ pc' = "collected"
                                  /\ log' = Append(log, Collected)
                             ELSE /\ pc' = "usgsrc"
                                  /\ UNCHANGED log
                          /\ UNCHANGED <<i, out>>
  /\ UNCHANGED inp

\* lines 370, 176-199 (and 245-261 when there is no site to draw)
DrawHand ==
  /\ pc = "collected"
  /\ IF self.handstage # <<>> /\ ~HasAttr(self, "handwidth")
     THEN Raise("AttributeError", <<>>)
     ELSE IF self.usgsids = <<>>
     THEN Raise(FinishPlot(self, 0), <<>>)
     ELSE /\ pc' = "xsect"
          /\ out' = NoDrawing
          /\ UNCHANGED <<i, log, self>>
  /\ UNCHANGED <<inp, net>>

\* lines 204-242 for the next site (and 245-273, 378 after the last one)
FetchMeasurements ==
  /\ pc = "xsect"
  /\ LET k == Len(out.xsects) + 1
         site == self.usgsids[k]
     IN  \/ /\ net' = Append(net, Fetch("measurements", site, FALSE))
            /\ Raise("IOError", <<>>)
         \/ \E urllines \in DrvXsResponses :
              LET r == SiteXsect(urllines)
              IN  /\ net' = Append(net, Fetch("measurements", site, TRUE))
                  /\ IF r.exc # NoExc THEN Raise(r.exc, <<>>)
                     ELSE IF k < Len(self.usgsids)
                     THEN /\ out' = [site |-> k,
                                     xsects |-> Append(out.xsects,
                                                       r.x.usgs_xsect)]
                          /\ pc' = "xsect"
                          /\ UNCHANGED <<i, log, self>>
                     ELSE IF FinishPlot(self, k) # NoExc
                     THEN Raise(FinishPlot(self, k), <<>>)
                     ELSE Saved
  /\ UNCHANGED inp

\* the for loop of line 363 is exhausted
Finish ==
  /\ pc = "loop"
  /\ i > Len(comids)
  /\ pc' = "done"
  /\ UNCHANGED <<inp, self, out, i, log, net>>

Init ==
  /\ pc = "loop"
  /\ i = 1
  /\ log = <<>>
  /\ net = <<>>
  /\ self = NoObject
  /\ out = NoDrawing
  /\ inp \in {[idlookup |-> IdLookup(csv)] : csv \in StreamGages}

Next ==
  \/ LoadCurves
  \/ LoadProps
  \/ FetchRating
  \/ DrawHand
  \/ FetchMeasurements
  \/ Finish

Spec == Init /\ [][Next]_vars

\* the loop body runs to its end: nothing but the end of the run stops it
FairSpec == Spec /\ WF_vars(Next)

\* the position of a reach id in the driver's list
PosOf(comid) == CHOOSE k \in 1..Len(comids) : comids[k] = comid

\* the reach ids whose analysis was started, in the order of the starts
Attempted ==
  LET idxs == SelectSeq([k \in 1..Len(log) |-> k],
                        LAMBDA k : log[k].msg = "Retrieving")
  IN  [m \in 1..Len(idxs) |-> log[idxs[m]].comid]

C6_Safe ==
  /\ Len(Attempted) <= Len(comids)
  /\ \A k \in 1..Len(Attempted) : Attempted[k] = comids[k]
  /\ \A k \in 1..Len(log) :
       log[k].exc \in {"TypeError", "IndexError"} =>
         /\ log[k].msg \in {"XS Error", "RC Error"}
         /\ i > PosOf(log[k].comid)
         /\ (pc = "crashed" => k < Len(log))
  /\ pc = "done" => Attempted = comids

\* C6: a TypeError or an IndexError of the analysis of a reach id is caught
\* for that id and the loop goes on with the next id; the ids are attempted
\* once each in the order of the list, the run ends, and it ends normally
\* unless a failure of another kind ended it.
C6_CaughtAndContinued ==
  /\ []C6_Safe
  /\ <>(pc = "done" \/ pc = "crashed")

\* the first id fails with an IndexError, the second one is analysed, the run ends
C6_Witness ==
  /\ pc = "done"
  /\ \E k \in 1..Len(log) :
       /\ log[k] = Entry(comids[1], "RC Error", "IndexError")
       /\ k < Len(log)
       /\ log[k + 1] = Entry(comids[2], "Retrieving", NoExc)

\* C7 as stated: a failed fetch is caught at the top-level loop and the loop
\* goes on with the next reach id.
C7_FetchFailureSkipsId ==
  \A m \in 1..Len(net) :
    ~net[m].ok =>
      /\ pc # "crashed"
      /\ i > PosOf(net[m].comid)

\* C7, amended: a failed fetch is not retried and is not caught by the
\* top-level loop: it ends the whole run at that reach id.
C7_FetchFailureEndsRun ==
  \A m \in 1..Len(net) :
    ~net[m].ok =>
      /\ m = Len(net)
      /\ pc = "crashed"
      /\ i = PosOf(net[m].comid)
      /\ log[Len(log)] = Entry(net[m].comid, "Traceback", "IOError")

\* a measurement fetch of the first id fails and the second id is never started
C7_Witness ==
  /\ pc = "crashed"
  /\ Len(net) >= 2
  /\ net[Len(net)] = [comid |-> comids[1], url |-> "measurements",
                      site |-> "08158700", ok |-> FALSE]
  /\ Attempted = <<comids[1]>>

\* C4: a reach id of both index tables (its rows matching) without a row of
\* the crosswalk ends in the IndexError the driver reports as 'RC Error', and
\* nothing is fetched for it.
C4_NoCrosswalkRowIsRcError ==
  \A k \in 1..Len(log) :
    (/\ log[k].msg = "Collected"
     /\ UsgsIds(inp.idlookup, log[k].comid) = <<>>
     /\ k < Len(log)
     /\ log[k + 1].exc # "AttributeError") =>
      /\ log[k + 1] = Entry(log[k].comid, "RC Error", "IndexError")
      /\ \A m \in 1..Len(net) : net[m].comid # log[k].comid

\* C5: with an index that points to a row of another reach id, neither
\* get_hand_curves nor get_hand_props, and so the constructor, completes.
C5_StaleIndexFailsLoading ==
  /\ pc \in {"props", "usgsrc", "collected", "xsect"} => HasAttr(self, "handq")
  /\ pc \in {"usgsrc", "collected", "xsect"} => PropsAttrs \subseteq self.attrs

====
